---- MODULE Spec2Model ----
(***************************************************************************)
(* Model of the Minesweeper knowledge engine of src/minesweeper/           *)
(* minesweeper.py: the class Sentence, the class MinesweeperAI and the     *)
(* ground truth (Minesweeper.nearby_mines) that feeds it.                  *)
(*                                                                         *)
(* A cell is a pair <<row, col>>.  A sentence is a record                   *)
(* [cells |-> set of cells, count |-> integer].  The AI object is the      *)
(* record [height, width, moves_made, mines, safes, knowledge]; knowledge  *)
(* is a sequence of sentences, in list order.                              *)
(*                                                                         *)
(* Model of the Tic Tac Toe player of src/tictactoe/tictactoe.py as well:  *)
(* a board is a sequence of three rows of three marks, an action is a pair *)
(* <<i, j>> counted from 0 as in the code.                                 *)
(***************************************************************************)
EXTENDS Integers, Sequences, FiniteSets, TLC

VARIABLES height, width, board, moves_made, mines, safes, knowledge, ret, steps,
          game_board, game_ret

vars == <<height, width, board, moves_made, mines, safes, knowledge, ret, steps,
          game_board, game_ret>>

(* Bounds of the model. *)
MaxHeight == 3
MaxWidth == 3
MaxSteps == 3
MaxReveals == 3
MaxSearch == 6

(* Python's None, as a move selector returns it. *)
None == <<>>

Max(a, b) == IF a >= b THEN a ELSE b

Min(a, b) == IF a <= b THEN a ELSE b

(* All cells of an h x w board. *)
Cells(h, w) == (0 .. h - 1) \X (0 .. w - 1)

(***************************************************************************)
(* class Minesweeper                                                       *)
(***************************************************************************)

(* Minesweeper.nearby_mines: mines within one row and column of cell, the  *)
(* cell itself excluded; b is the set of mined cells of the board.         *)
nearby_mines(b, h, w, cell) ==
    Cardinality({c \in ((cell[1] - 1) .. (cell[1] + 1)) \X ((cell[2] - 1) .. (cell[2] + 1)) :
                    /\ c # cell
                    /\ 0 <= c[1] /\ c[1] < h /\ 0 <= c[2] /\ c[2] < w
                    /\ c \in b})

(***************************************************************************)
(* class Sentence                                                          *)
(***************************************************************************)

Sentence(cells, count) == [cells |-> cells, count |-> count]

Sentence_known_mines(s) == IF Cardinality(s.cells) = s.count THEN s.cells ELSE {}

(* Mutant of Sentence_known_safes: tests the number of cells, not count. *)
Sentence_known_safes_by_size(s) == IF Cardinality(s.cells) = 0 THEN s.cells ELSE {}

Sentence_known_safes(s) == IF s.count = 0 THEN s.cells ELSE {}

(* Mutant of Sentence_mark_mine: the cell is removed, the count is kept. *)
Sentence_mark_mine_keeping_count(s, cell) ==
    IF cell \in s.cells
    THEN [cells |-> s.cells \ {cell}, count |-> s.count]
    ELSE s

Sentence_mark_mine(s, cell) ==
    IF cell \in s.cells
    THEN [cells |-> s.cells \ {cell}, count |-> s.count - 1]
    ELSE s

(* Mutant of Sentence_mark_safe: the count is decremented as for a mine. *)
Sentence_mark_safe_decrementing(s, cell) ==
    IF cell \in s.cells
    THEN [cells |-> s.cells \ {cell}, count |-> s.count - 1]
    ELSE s

Sentence_mark_safe(s, cell) ==
    IF cell \in s.cells
    THEN [cells |-> s.cells \ {cell}, count |-> s.count]
    ELSE s

(***************************************************************************)
(* class MinesweeperAI                                                     *)
(***************************************************************************)

MinesweeperAI(h, w) ==
    [height |-> h, width |-> w, moves_made |-> {}, mines |-> {}, safes |-> {},
     knowledge |-> <<>>]

(* Mutant of mark_mine: a cell marked as a mine is taken out of safes. *)
mark_mine_moving(ai, cell) ==
    [ai EXCEPT !.mines = @ \cup {cell},
               !.safes = @ \ {cell},
               !.knowledge = [k \in 1 .. Len(@) |-> Sentence_mark_mine(@[k], cell)]]

mark_mine(ai, cell) ==
    [ai EXCEPT !.mines = @ \cup {cell},
               !.knowledge = [k \in 1 .. Len(@) |-> Sentence_mark_mine(@[k], cell)]]

mark_safe(ai, cell) ==
    [ai EXCEPT !.safes = @ \cup {cell},
               !.knowledge = [k \in 1 .. Len(@) |-> Sentence_mark_safe(@[k], cell)]]

(* Step 3, first pass: itertools.product over the clipped ranges. *)
new_cells(ai, cell) ==
    {c \in (Max(0, cell[1] - 1) .. (Min(ai.height, cell[1] + 2) - 1))
            \X (Max(0, cell[2] - 1) .. (Min(ai.width, cell[2] + 2) - 1)) : c # cell}

(* Step 3, second pass: the full 3 x 3 block, filtered by the bounds test. *)
new_sentence_cells(ai, cell) ==
    {c \in ((cell[1] - 1) .. (cell[1] + 1)) \X ((cell[2] - 1) .. (cell[2] + 1)) :
        /\ c # cell
        /\ 0 <= c[1] /\ c[1] < ai.height
        /\ 0 <= c[2] /\ c[2] < ai.width}

(* Step 4: what every sentence of the knowledge base says is safe / a mine, *)
(* both collected before any cell is marked.                               *)
newly_safe(ai) ==
    UNION {Sentence_known_safes(ai.knowledge[k]) : k \in 1 .. Len(ai.knowledge)}

newly_mines(ai) ==
    UNION {Sentence_known_mines(ai.knowledge[k]) : k \in 1 .. Len(ai.knowledge)}

(* for safe_cell in newly_safe: self.mark_safe(safe_cell) *)
RECURSIVE mark_safe_each(_, _)
mark_safe_each(ai, todo) ==
    IF todo = {} THEN ai
    ELSE LET c == CHOOSE x \in todo : TRUE
         IN  mark_safe_each(mark_safe(ai, c), todo \ {c})

(* for mine_cell in newly_mines: self.mark_mine(mine_cell) *)
RECURSIVE mark_mine_each(_, _)
mark_mine_each(ai, todo) ==
    IF todo = {} THEN ai
    ELSE LET c == CHOOSE x \in todo : TRUE
         IN  mark_mine_each(mark_mine(ai, c), todo \ {c})

mark_additional(ai) ==
    LET ns == newly_safe(ai)
        nm == newly_mines(ai)
    IN  mark_mine_each(mark_safe_each(ai, ns), nm)

(* Mutant of inferred_row: the counts are subtracted the wrong way round. *)
RECURSIVE inferred_row_swapped(_, _, _)
inferred_row_swapped(K, i, j) ==
    IF j > Len(K) THEN <<>>
    ELSE LET sentence1 == K[i]
             sentence2 == K[j]
         IN  (IF /\ sentence1 # sentence2
                 /\ sentence1.cells \subseteq sentence2.cells
              THEN <<Sentence(sentence2.cells \ sentence1.cells,
                              sentence1.count - sentence2.count)>>
              ELSE <<>>) \o inferred_row_swapped(K, i, j + 1)

(* Step 5, inner loop (for sentence2 in self.knowledge) for the sentence   *)
(* at index i: what it appends to inferred_sentences, from index j on.     *)
RECURSIVE inferred_row(_, _, _)
inferred_row(K, i, j) ==
    IF j > Len(K) THEN <<>>
    ELSE LET sentence1 == K[i]
             sentence2 == K[j]
         IN  (IF /\ sentence1 # sentence2
                 /\ sentence1.cells \subseteq sentence2.cells
              THEN <<Sentence(sentence2.cells \ sentence1.cells,
                              sentence2.count - sentence1.count)>>
              ELSE <<>>) \o inferred_row(K, i, j + 1)

(* Step 5, outer loop (for sentence1 in self.knowledge), from index i on.  *)
RECURSIVE inferred_rows(_, _)
inferred_rows(K, i) ==
    IF i > Len(K) THEN <<>>
    ELSE inferred_row(K, i, 1) \o inferred_rows(K, i + 1)

(* The list inferred_sentences, in the order the nested loops build it. *)
inferred_sentences(K) == inferred_rows(K, 1)

(* for sentence in inferred_sentences: append it unless it is already in   *)
(* the knowledge base.  The knowledge base grows while the loop runs, so   *)
(* an inferred sentence is appended exactly when it is not in K and does   *)
(* not occur earlier in the list; the appended ones keep the list's order. *)
append_new(K, inferred) ==
    LET keep == {k \in 1 .. Len(inferred) :
                    /\ \A m \in 1 .. Len(K) : K[m] # inferred[k]
                    /\ \A m \in 1 .. (k - 1) : inferred[m] # inferred[k]}
        nth(r) == CHOOSE k \in keep : Cardinality({q \in keep : q < k}) = r - 1
    IN  K \o [r \in 1 .. Cardinality(keep) |-> inferred[nth(r)]]

add_inferred(ai) ==
    [ai EXCEPT !.knowledge = append_new(@, inferred_sentences(@))]

(* Lines 192-195: steps 1 and 2, the cell is a move made and is safe. *)
cell_recorded(ai, cell) ==
    mark_safe([ai EXCEPT !.moves_made = @ \cup {cell}], cell)

(* Lines 192-206: steps 1-3 of the first copy, the new sentence appended. *)
first_sentence_added(ai, cell, count) ==
    LET a1 == cell_recorded(ai, cell)
    IN  [a1 EXCEPT !.knowledge = Append(@, Sentence(new_cells(a1, cell), count))]

(* Lines 192-222: steps 1-4 of the first copy. *)
first_marked(ai, cell, count) == mark_additional(first_sentence_added(ai, cell, count))

(* Lines 238-284: the second copy of steps 1-5. *)
second_pass(ai, cell, count) ==
    LET a1 == mark_safe([ai EXCEPT !.moves_made = @ \cup {cell}], cell)
        a3 == [a1 EXCEPT !.knowledge =
                    Append(@, Sentence(new_sentence_cells(a1, cell), count))]
    IN  add_inferred(mark_additional(a3))

(* One run of add_knowledge: the AI object it leaves and, on the way, the  *)
(* knowledge base as step 5 of the first copy finds it (line 224) and as   *)
(* that step leaves it (line 236).                                         *)
add_knowledge_run(ai, cell, count) ==
    LET marked == first_marked(ai, cell, count)
        inferred == add_inferred(marked)
    IN  [ai |-> second_pass(inferred, cell, count),
         marked |-> marked.knowledge,
         inferred |-> inferred.knowledge]

add_knowledge(ai, cell, count) == add_knowledge_run(ai, cell, count).ai

(* Mutant of safe_candidates: the test against moves_made is left out. *)
safe_candidates_any(ai) == ai.safes

(* make_safe_move: the loop returns the first cell of self.safes, in the   *)
(* set's iteration order, that is not a move made; any such cell can be    *)
(* the first.  These are the cells it can return.                          *)
safe_candidates(ai) == {save_cell \in ai.safes : save_cell \notin ai.moves_made}

(* make_safe_move, the AI object after save_cell is returned. *)
make_safe_move(ai, save_cell) == [ai EXCEPT !.moves_made = @ \cup {save_cell}]

(* make_flag_move: the cells it can return. *)
flag_candidates(ai) == {mine_cell \in ai.mines : mine_cell \notin ai.moves_made}

(* Mutant of make_flag_move: the returned cell is not recorded. *)
make_flag_move_unrecorded(ai, mine_cell) == ai

(* make_flag_move, the AI object after mine_cell is returned. *)
make_flag_move(ai, mine_cell) == [ai EXCEPT !.moves_made = @ \cup {mine_cell}]

(* make_random_move: possible_moves and valid_moves. *)
possible_moves(ai) == Cells(ai.height, ai.width)

(* Mutant of valid_moves: the known mines are not taken out. *)
valid_moves_with_mines(ai) == possible_moves(ai) \ ai.moves_made

valid_moves(ai) == (possible_moves(ai) \ ai.moves_made) \ ai.mines

add_move(ai, move) == [ai EXCEPT !.moves_made = @ \cup {move}]

(***************************************************************************)
(* tictactoe.py                                                            *)
(***************************************************************************)

X == "X"

O == "O"

(* EMPTY = None; a string here, so that it compares with X and O. *)
EMPTY == "None"

(* math.inf: above every value utility returns. *)
math_inf == 2

initial_state ==
    << <<EMPTY, EMPTY, EMPTY>>,
       <<EMPTY, EMPTY, EMPTY>>,
       <<EMPTY, EMPTY, EMPTY>> >>

(* board[i][j] of the code, i and j counted from 0. *)
At(b, i, j) == b[i + 1][j + 1]

(* for i in range(3): for j in range(3): the squares in that order. *)
RowMajor == [k \in 1 .. 9 |-> <<(k - 1) \div 3, (k - 1) % 3>>]

(* sum(row.count(p) for row in board) *)
count_marks(b, p) == Cardinality({k \in 1 .. 9 : At(b, RowMajor[k][1], RowMajor[k][2]) = p})

player(b) == IF count_marks(b, X) <= count_marks(b, O) THEN X ELSE O

(* The list possible_actions, in the order of the appends. *)
actions(b) == SelectSeq(RowMajor, LAMBDA a : At(b, a[1], a[2]) = EMPTY)

result(b, action) == [b EXCEPT ![action[1] + 1][action[2] + 1] = player(b)]

(* winner: X for a row, a column or a diagonal of X; O on every other      *)
(* board (line 77).                                                        *)
winner(b) ==
    IF \/ \E i \in 0 .. 2 :
             /\ At(b, i, 0) = At(b, i, 1) /\ At(b, i, 0) = At(b, i, 2)
             /\ At(b, i, 0) = X
       \/ \E col \in 0 .. 2 :
             /\ At(b, 0, col) = At(b, 1, col) /\ At(b, 1, col) = At(b, 2, col)
             /\ At(b, 0, col) = X
       \/ /\ At(b, 0, 0) = At(b, 1, 1) /\ At(b, 1, 1) = At(b, 2, 2)
          /\ At(b, 0, 0) = X
       \/ /\ At(b, 0, 2) = At(b, 1, 1) /\ At(b, 1, 1) = At(b, 2, 0)
          /\ At(b, 0, 2) = X
    THEN X
    ELSE O

terminal(b) ==
    \/ \E i \in 0 .. 2 :
          /\ At(b, i, 0) = At(b, i, 1) /\ At(b, i, 0) = At(b, i, 2)
          /\ At(b, i, 0) # EMPTY
    \/ \E col \in 0 .. 2 :
          /\ At(b, 0, col) = At(b, 1, col) /\ At(b, 1, col) = At(b, 2, col)
          /\ At(b, 0, col) # EMPTY
    \/ /\ At(b, 0, 0) = At(b, 1, 1) /\ At(b, 1, 1) = At(b, 2, 2)
       /\ At(b, 0, 0) # EMPTY
    \/ /\ At(b, 0, 2) = At(b, 1, 1) /\ At(b, 1, 1) = At(b, 2, 0)
       /\ At(b, 0, 2) # EMPTY
    \/ \A k \in 1 .. 9 : At(b, RowMajor[k][1], RowMajor[k][2]) # EMPTY

utility(b) ==
    IF winner(b) = X THEN 1
    ELSE IF winner(b) = O THEN -1
    ELSE 0

(* max(v, ...) and min(v, ...) folded over a set of scores from v on. *)
max_from(v, scores) == CHOOSE m \in scores \cup {v} : \A w \in scores \cup {v} : w <= m

min_from(v, scores) == CHOOSE m \in scores \cup {v} : \A w \in scores \cup {v} : m <= w

RECURSIVE max_value(_), min_value(_)

max_value(b) ==
    IF terminal(b)
    THEN utility(b)
    ELSE max_from(-math_inf,
                  {min_value(result(b, actions(b)[k])) : k \in 1 .. Len(actions(b))})

min_value(b) ==
    IF terminal(b)
    THEN utility(b)
    ELSE min_from(math_inf,
                  {max_value(result(b, actions(b)[k])) : k \in 1 .. Len(actions(b))})

(* The loop of lines 145-149 (154-158): best_action is the first action    *)
(* whose score is strictly better than every score before it, None when no *)
(* score is better than the starting best_score.                           *)
best_action(acts, scores, best_score) ==
    IF \A k \in 1 .. Len(acts) : scores[k] # best_score
    THEN None
    ELSE acts[CHOOSE k \in 1 .. Len(acts) :
                 /\ scores[k] = best_score
                 /\ \A l \in 1 .. k - 1 : scores[l] # best_score]

minimax(b) ==
    IF terminal(b)
    THEN None
    ELSE IF player(b) = X
         THEN LET scores == [k \in 1 .. Len(actions(b)) |->
                                min_value(result(b, actions(b)[k]))]
              IN  best_action(actions(b), scores,
                              max_from(-math_inf, {scores[k] : k \in 1 .. Len(scores)}))
         ELSE LET scores == [k \in 1 .. Len(actions(b)) |->
                                max_value(result(b, actions(b)[k]))]
              IN  best_action(actions(b), scores,
                              min_from(math_inf, {scores[k] : k \in 1 .. Len(scores)}))

(***************************************************************************)
(* The state machine                                                       *)
(***************************************************************************)

(* The AI object held in the variables. *)
self ==
    [height |-> height, width |-> width, moves_made |-> moves_made,
     mines |-> mines, safes |-> safes, knowledge |-> knowledge]

(* The variables take the fields of the AI object a. *)
Becomes(a) ==
    /\ moves_made' = a.moves_made
    /\ mines' = a.mines
    /\ safes' = a.safes
    /\ knowledge' = a.knowledge
    /\ UNCHANGED <<height, width, board, game_board, game_ret>>

(* What the last call was and returned.  After add_knowledge, marked and   *)
(* inferred are the two knowledge bases add_knowledge_run names.           *)
Result(op, cell, count, res) ==
    [op |-> op, cell |-> cell, count |-> count, result |-> res,
     marked |-> <<>>, inferred |-> <<>>]

(* The step of a call add_knowledge(cell, count). *)
Observe(cell, count) ==
    \E run \in {add_knowledge_run(self, cell, count)} :
        /\ Becomes(run.ai)
        /\ ret' = [op |-> "add_knowledge", cell |-> cell, count |-> count,
                   result |-> None, marked |-> run.marked, inferred |-> run.inferred]

(* What the last Tic Tac Toe call was and returned. *)
Answer(op, value, action) == [op |-> op, value |-> value, action |-> action]

InitAI ==
    /\ height \in 1 .. MaxHeight
    /\ width \in 1 .. MaxWidth
    /\ moves_made = {}
    /\ mines = {}
    /\ safes = {}
    /\ knowledge = <<>>
    /\ ret = Result("init", None, 0, None)
    /\ steps = 0
    /\ game_board = initial_state
    /\ game_ret = Answer("init", 0, None)

(* The AI alone, driven through its public methods; no mine is laid. *)
Init == InitAI /\ board = {}

(* The AI next to a game whose mines are any subset of the cells. *)
InitGame == InitAI /\ board \in SUBSET Cells(height, width)

(* add_knowledge(cell, count) with any in-bounds cell and any count from 0 *)
(* to the number of neighbours of the cell.                                *)
AddKnowledge ==
    /\ steps < MaxSteps
    /\ \E cell \in Cells(height, width) :
         \E count \in 0 .. Cardinality(new_cells(self, cell)) :
            Observe(cell, count)
    /\ steps' = steps + 1

MakeSafeMove ==
    /\ steps < MaxSteps
    /\ IF safe_candidates(self) # {}
       THEN \E save_cell \in safe_candidates(self) :
               /\ Becomes(make_safe_move(self, save_cell))
               /\ ret' = Result("make_safe_move", None, 0, save_cell)
       ELSE /\ Becomes(self)
            /\ ret' = Result("make_safe_move", None, 0, None)
    /\ steps' = steps + 1

MakeFlagMove ==
    /\ steps < MaxSteps
    /\ IF flag_candidates(self) # {}
       THEN \E mine_cell \in flag_candidates(self) :
               /\ Becomes(make_flag_move(self, mine_cell))
               /\ ret' = Result("make_flag_move", None, 0, mine_cell)
       ELSE /\ Becomes(self)
            /\ ret' = Result("make_flag_move", None, 0, None)
    /\ steps' = steps + 1

MakeRandomMove ==
    /\ steps < MaxSteps
    /\ IF valid_moves(self) # {}
       THEN \E move \in valid_moves(self) :
               ret' = Result("make_random_move", None, 0, move)
       ELSE ret' = Result("make_random_move", None, 0, None)
    /\ Becomes(self)
    /\ steps' = steps + 1

AddMove ==
    /\ steps < MaxSteps
    /\ \E move \in Cells(height, width) :
          /\ Becomes(add_move(self, move))
          /\ ret' = Result("add_move", move, 0, None)
    /\ steps' = steps + 1

(* mark_mine(cell) called from outside, with any in-bounds cell. *)
MarkMine ==
    /\ steps < MaxSteps
    /\ \E cell \in Cells(height, width) :
          /\ Becomes(mark_mine(self, cell))
          /\ ret' = Result("mark_mine", cell, 0, None)
    /\ steps' = steps + 1

(* mark_safe(cell) called from outside, with any in-bounds cell. *)
MarkSafe ==
    /\ steps < MaxSteps
    /\ \E cell \in Cells(height, width) :
          /\ Becomes(mark_safe(self, cell))
          /\ ret' = Result("mark_safe", cell, 0, None)
    /\ steps' = steps + 1

(* The game loop's observation: a cell without a mine is revealed and the  *)
(* board's own count of its neighbouring mines is handed to the AI.        *)
Reveal ==
    /\ steps < MaxReveals
    /\ \E cell \in Cells(height, width) \ board :
          Observe(cell, nearby_mines(board, height, width, cell))
    /\ steps' = steps + 1

Next ==
    \/ AddKnowledge \/ MakeSafeMove \/ MakeFlagMove \/ MakeRandomMove \/ AddMove
    \/ MarkMine \/ MarkSafe

Spec == Init /\ [][Next]_vars

NextGame == Reveal

SpecGame == InitGame /\ [][NextGame]_vars

(* No Minesweeper object takes part in the Tic Tac Toe specifications. *)
NoMinesweeper ==
    /\ height = 1
    /\ width = 1
    /\ board = {}
    /\ moves_made = {}
    /\ mines = {}
    /\ safes = {}
    /\ knowledge = <<>>
    /\ ret = Result("init", None, 0, None)
    /\ steps = 0

(* Every 3 x 3 board over X, O and EMPTY. *)
Boards == [1 .. 3 -> [1 .. 3 -> {X, O, EMPTY}]]

InitBoards ==
    /\ NoMinesweeper
    /\ game_board \in Boards
    /\ game_ret = Answer("init", 0, None)

(* utility(board) is called. *)
Utility ==
    /\ game_ret.op = "init"
    /\ game_ret' = Answer("utility", utility(game_board), None)
    /\ UNCHANGED <<height, width, board, moves_made, mines, safes, knowledge,
                   ret, steps, game_board>>

NextBoards == Utility

SpecBoards == InitBoards /\ [][NextBoards]_vars

InitPlay ==
    /\ NoMinesweeper
    /\ game_board = initial_state
    /\ game_ret = Answer("init", 0, None)

(* The game loop: a legal move of the player whose turn it is, while the   *)
(* game is not over.                                                       *)
Play ==
    /\ ~terminal(game_board)
    /\ \E k \in 1 .. Len(actions(game_board)) :
          /\ game_board' = result(game_board, actions(game_board)[k])
          /\ game_ret' = Answer("result", 0, actions(game_board)[k])
    /\ UNCHANGED <<height, width, board, moves_made, mines, safes, knowledge,
                   ret, steps>>

(* minimax(board) is called, on boards of at most MaxSearch empty squares. *)
Minimax ==
    /\ Len(actions(game_board)) <= MaxSearch
    /\ game_ret' = Answer("minimax", 0, minimax(game_board))
    /\ UNCHANGED <<height, width, board, moves_made, mines, safes, knowledge,
                   ret, steps, game_board>>

NextPlay == Play \/ Minimax

SpecPlay == InitPlay /\ [][NextPlay]_vars


(***************************************************************************)
(* Properties                                                              *)
(***************************************************************************)

(* The last step was a call of add_knowledge that has returned. *)
Returned == ret.op = "add_knowledge"

(* C1 (as claimed). Consistency: after every add_knowledge call, for any   *)
(* sequence of calls with the cell in bounds and the count between 0 and   *)
(* the number of neighbours, known mines and known safes are disjoint.     *)
C1_Consistency == Returned => mines \cap safes = {}

(* C2 (as claimed). Idempotence: right after add_knowledge(cell, count)    *)
(* has returned, the same call again leaves moves_made, mines, safes and   *)
(* the knowledge base as they are.                                         *)
C2_Idempotence == Returned => add_knowledge(self, ret.cell, ret.count) = self

(* C3 (as claimed). When add_knowledge has returned, every sentence whose  *)
(* count equals its number of cells has all its cells in mines, and every  *)
(* sentence with count 0 has all its cells in safes.                       *)
C3_AllMarked ==
    Returned =>
        \A k \in 1 .. Len(knowledge) :
            /\ Cardinality(knowledge[k].cells) = knowledge[k].count
                   => knowledge[k].cells \subseteq mines
            /\ knowledge[k].count = 0 => knowledge[k].cells \subseteq safes

(* C4. Monotonicity: no step of add_knowledge, make_safe_move,             *)
(* make_flag_move, make_random_move, add_move, mark_mine or mark_safe      *)
(* removes a cell from moves_made, mines or safes.                         *)
C4_Monotonic ==
    [][/\ moves_made \subseteq moves_made'
       /\ mines \subseteq mines'
       /\ safes \subseteq safes']_vars

(* C4 witness: three calls later all three sets hold cells. *)
C4_Witness ==
    /\ steps = MaxSteps
    /\ mines # {} /\ safes # {}
    /\ \E c \in moves_made : c \notin safes

(* The first call on an empty 3 x 3 AI was add_knowledge(cell, count). *)
FirstCall3x3(cell, count) ==
    /\ height = 3 /\ width = 3
    /\ steps = 1
    /\ ret.op = "add_knowledge" /\ ret.cell = cell /\ ret.count = count

(* C5 (as claimed). On an empty 3 x 3 AI, add_knowledge((0,0), 1) leaves   *)
(* the knowledge base holding exactly one sentence,                        *)
(* {(0,1),(1,0),(1,1)} = 1, no mine and no safe cell but (0,0).            *)
C5_Corner ==
    FirstCall3x3(<<0, 0>>, 1) =>
        /\ knowledge = <<Sentence({<<0, 1>>, <<1, 0>>, <<1, 1>>}, 1)>>
        /\ mines = {}
        /\ safes = {<<0, 0>>}

(* The knowledge base K holds a sentence equal to s. *)
Holds(K, s) == \E k \in 1 .. Len(K) : K[k] = s

SentenceA == Sentence({<<0, 0>>, <<0, 1>>}, 1)

SentenceB == Sentence({<<0, 0>>, <<0, 1>>, <<0, 2>>}, 2)

SentenceAB == Sentence({<<0, 2>>}, 1)

(* C6. Subsumption: when the knowledge base holds A = {(0,0),(0,1)} = 1    *)
(* and B = {(0,0),(0,1),(0,2)} = 2 as step 5 of add_knowledge starts, that *)
(* step leaves {(0,2)} = 1 in the knowledge base, and (0,2) is a known     *)
(* mine when the call returns.                                             *)
C6_Subsumption ==
    (Returned /\ Holds(ret.marked, SentenceA) /\ Holds(ret.marked, SentenceB)) =>
        /\ Holds(ret.inferred, SentenceAB)
        /\ <<0, 2>> \in mines

(* C6 witness: a call has met A and B at step 5 and has returned with      *)
(* (0,2) a known mine.                                                     *)
C6_Witness ==
    /\ Returned
    /\ Holds(ret.marked, SentenceA) /\ Holds(ret.marked, SentenceB)
    /\ ~Holds(ret.marked, SentenceAB)
    /\ <<0, 2>> \in mines

(* C7. On an empty 3 x 3 AI, add_knowledge((1,1), 0) leaves all 8          *)
(* neighbours of (1,1) in safes and none in mines.                         *)
C7_Centre ==
    FirstCall3x3(<<1, 1>>, 0) =>
        /\ (Cells(3, 3) \ {<<1, 1>>}) \subseteq safes
        /\ mines \cap (Cells(3, 3) \ {<<1, 1>>}) = {}

(* C7 witness: that call has returned and the 8 neighbours are safe. *)
C7_Witness ==
    /\ FirstCall3x3(<<1, 1>>, 0)
    /\ Cardinality(safes \ {<<1, 1>>}) = 8

(* C8. make_random_move returns None or an in-bounds cell that is neither  *)
(* a known mine nor a move made, and None exactly when no such cell is     *)
(* left.  The call changes no field, so the state holds what it read.      *)
C8_RandomMove ==
    ret.op = "make_random_move" =>
        /\ ret.result # None =>
              /\ ret.result \in Cells(height, width)
              /\ ret.result \notin mines
              /\ ret.result \notin moves_made
        /\ ret.result = None <=>
              \A c \in Cells(height, width) : c \in moves_made \/ c \in mines

(* C8 witness: a cell is returned while some other cell is a known mine    *)
(* that has not been played.                                               *)
C8_Witness ==
    /\ ret.op = "make_random_move"
    /\ ret.result # None
    /\ mines \ moves_made # {}

(* C9. make_safe_move returns a cell of safes that was not in moves_made   *)
(* before the call and is in it after; it returns None exactly when every  *)
(* safe cell is a move made; two calls in a row never return one cell.     *)
C9_SafeMove ==
    [][ret'.op = "make_safe_move" =>
          /\ ret'.result # None =>
                /\ ret'.result \in safes
                /\ ret'.result \notin moves_made
                /\ ret'.result \in moves_made'
          /\ ret'.result = None <=> safes \subseteq moves_made
          /\ (ret.op = "make_safe_move" /\ ret.result # None)
                => ret'.result # ret.result]_vars

(* C9 witness: make_safe_move has returned a cell, now a move made. *)
C9_Witness ==
    /\ ret.op = "make_safe_move"
    /\ ret.result # None
    /\ ret.result \in moves_made \cap safes

(* C10. make_flag_move returns a cell of mines that was not in moves_made  *)
(* before the call and is in it after; it returns None exactly when every  *)
(* known mine is a move made.                                              *)
C10_FlagMove ==
    [][ret'.op = "make_flag_move" =>
          /\ ret'.result # None =>
                /\ ret'.result \in mines
                /\ ret'.result \notin moves_made
                /\ ret'.result \in moves_made'
          /\ ret'.result = None <=> mines \subseteq moves_made]_vars

(* C10 witness: make_flag_move has returned a cell, now a move made. *)
C10_Witness ==
    /\ ret.op = "make_flag_move"
    /\ ret.result # None
    /\ ret.result \in moves_made \cap mines

(* C11 (as claimed). make_safe_move leaves mines, safes and moves_made as   *)
(* they are, whether it returns a cell or None.                            *)
C11_SafeMoveFrame ==
    [][ret'.op = "make_safe_move" =>
          /\ mines' = mines
          /\ safes' = safes
          /\ moves_made' = moves_made]_vars

(* C14. Soundness: under truthful observations of one board, after every   *)
(* add_knowledge call every known mine is a mine of the board and no known *)
(* safe cell is one.                                                       *)
C14_Sound ==
    Returned =>
        /\ mines \subseteq board
        /\ safes \cap board = {}

(* C14 witness: a call has returned with a mine found and with a safe cell *)
(* found that was never revealed.                                          *)
C14_Witness ==
    /\ Returned
    /\ mines # {}
    /\ safes \ moves_made # {}

(* Some sentence of the knowledge base K mentions the cell c. *)
Mentions(K, c) == \E k \in 1 .. Len(K) : c \in K[k].cells

(* C15 (as claimed). When add_knowledge has returned, no known mine and no *)
(* known safe cell is among the cells of any sentence.                     *)
C15_ResolvedRemoved ==
    Returned => \A c \in mines \cup safes : ~Mentions(knowledge, c)

(* One further inference pass on the AI object ai, as C16 words it: what   *)
(* the sentences say is marked, then every two distinct sentences A, B     *)
(* with A's cells a non-empty subset of B's cells give B - A.              *)
FurtherMarked(ai) == mark_additional(ai)

FurtherDerived(K) ==
    {Sentence(K[j].cells \ K[i].cells, K[j].count - K[i].count) :
        <<i, j>> \in {p \in (1 .. Len(K)) \X (1 .. Len(K)) :
                        /\ K[p[1]] # K[p[2]]
                        /\ K[p[1]].cells # {}
                        /\ K[p[1]].cells \subseteq K[p[2]].cells}}

(* C16 (as claimed). Saturation: in the state add_knowledge returns in, a  *)
(* further pass marks no new mine or safe cell and derives no non-empty    *)
(* sentence that the knowledge base does not hold.                         *)
C16_Saturated ==
    Returned =>
        /\ FurtherMarked(self).mines = mines
        /\ FurtherMarked(self).safes = safes
        /\ \A d \in FurtherDerived(FurtherMarked(self).knowledge) :
              d.cells = {} \/ Holds(FurtherMarked(self).knowledge, d)

(* The sentence C17 describes for add_knowledge(cell, count) called on ai: *)
(* the neighbours not yet known, the count less the known-mine neighbours. *)
UnknownNeighbours(ai, cell) == new_sentence_cells(ai, cell) \ (ai.mines \cup ai.safes)

AdjustedCount(ai, cell, count) ==
    count - Cardinality(new_sentence_cells(ai, cell) \cap ai.mines)

(* C17 (as claimed). The sentence add_knowledge(cell, count) appends for   *)
(* the observation is UnknownNeighbours = AdjustedCount, and nothing is    *)
(* appended when there is no unknown neighbour.                            *)
C17_NewSentence ==
    [][ret'.op = "add_knowledge" =>
          first_sentence_added(self, ret'.cell, ret'.count).knowledge =
              IF UnknownNeighbours(self, ret'.cell) = {}
              THEN cell_recorded(self, ret'.cell).knowledge
              ELSE Append(cell_recorded(self, ret'.cell).knowledge,
                          Sentence(UnknownNeighbours(self, ret'.cell),
                                   AdjustedCount(self, ret'.cell, ret'.count)))]_vars

(* Every sentence of K has a count between 0 and its number of cells. *)
CountsInRange(K) ==
    \A k \in 1 .. Len(K) : 0 <= K[k].count /\ K[k].count <= Cardinality(K[k].cells)

(* C18 (as claimed). add_knowledge fails loudly: it never returns normally *)
(* with a sentence whose count is below 0 or above its number of cells, or *)
(* with a cell both a known mine and a known safe cell.                    *)
C18_FailLoudly ==
    Returned => (CountsInRange(knowledge) /\ \A c \in mines : c \notin safes)

(* C19. Under truthful observations of one board, every sentence of the    *)
(* knowledge base has 0 <= count <= number of cells between calls.         *)
C19_CountBound == CountsInRange(knowledge)

(* C19 witness: after a call that derived sentences by subsumption and     *)
(* with a mine known, a sentence is still undecided.                       *)
C19_Witness ==
    /\ Returned
    /\ mines # {}
    /\ Len(ret.inferred) > Len(ret.marked)
    /\ \E k \in 1 .. Len(knowledge) :
          0 < knowledge[k].count /\ knowledge[k].count < Cardinality(knowledge[k].cells)

(* C20 (as claimed). Marking a known cell again is a no-op: mark_mine of a *)
(* known mine and mark_safe of a known safe cell leave the AI object as it *)
(* is.                                                                     *)
C20_MarkNoOp ==
    /\ \A c \in mines : mark_mine(self, c) = self
    /\ \A c \in safes : mark_safe(self, c) = self

(* The player p has three in a row on b: a row, a column or a diagonal. *)
ThreeInRow(b, p) ==
    \/ \E i \in 0 .. 2 : At(b, i, 0) = p /\ At(b, i, 1) = p /\ At(b, i, 2) = p
    \/ \E j \in 0 .. 2 : At(b, 0, j) = p /\ At(b, 1, j) = p /\ At(b, 2, j) = p
    \/ At(b, 0, 0) = p /\ At(b, 1, 1) = p /\ At(b, 2, 2) = p
    \/ At(b, 0, 2) = p /\ At(b, 1, 1) = p /\ At(b, 2, 0) = p

(* The value of a board as C12 states it. *)
StatedUtility(b) ==
    IF ThreeInRow(b, X) THEN 1
    ELSE IF ThreeInRow(b, O) THEN -1
    ELSE 0

(* C12 (as claimed). On every 3 x 3 board over X, O and EMPTY, utility is  *)
(* 1 if X has three in a row, -1 if O has three in a row and 0 otherwise,  *)
(* the empty board and drawn full boards included.                         *)
C12_Utility ==
    game_ret.op = "utility" => game_ret.value = StatedUtility(game_board)

(* The game-theoretic value of a board: win for X 1, win for O -1, draw 0, *)
(* X maximising and O minimising over the legal moves.                     *)
RECURSIVE GameValue(_)

GameValue(b) ==
    IF terminal(b)
    THEN StatedUtility(b)
    ELSE LET values == {GameValue(result(b, actions(b)[k])) : k \in 1 .. Len(actions(b))}
         IN  IF player(b) = X
             THEN CHOOSE v \in values : \A w \in values : w <= v
             ELSE CHOOSE v \in values : \A w \in values : v <= w

(* C13 (as claimed). On every board reached by legal alternating play from *)
(* the empty board, minimax returns None if the board is terminal and      *)
(* otherwise a legal action whose resulting board has the game-theoretic   *)
(* value of the board, the best the player to move can reach.              *)
C13_Optimal ==
    game_ret.op = "minimax" =>
        IF terminal(game_board)
        THEN game_ret.action = None
        ELSE /\ \E k \in 1 .. Len(actions(game_board)) :
                   actions(game_board)[k] = game_ret.action
             /\ GameValue(result(game_board, game_ret.action)) = GameValue(game_board)

====
